---- MODULE Spec2Model ----
(***************************************************************************)
(* Model of libindy/src/commands/pool.rs: the PoolCommandExecutor, which   *)
(* executes PoolCommand values against the external PoolService and        *)
(* delivers results through the callbacks the commands carry.  A Close is  *)
(* deferred: its callback is parked in close_callbacks under the command   *)
(* id the service issues and is invoked by the matching CloseAck.          *)
(*                                                                         *)
(* The executor is single-threaded (Rc / RefCell).  A command is one       *)
(* atomic step, except                                                     *)
(*   - Open and Refresh, which suspend at the service's .await and are     *)
(*     resumed by a separate step, and                                     *)
(*   - a CloseAck that finds its callback: the callback runs while the     *)
(*     RefMut of close_callbacks is still alive, so whatever the callback  *)
(*     executes on the same executor happens between the step that         *)
(*     invokes it and the step in which it returns.                        *)
(***************************************************************************)
EXTENDS Integers, Sequences, FiniteSets, TLC

\* ---------------------------------------------------------------- bounds
MaxCmds == 3
MaxCmdId == 2
MaxHandle == 2
MaxVersion == 3

Tokens == 1..MaxCmds
CmdIds == 1..MaxCmdId
PoolHandles == 1..MaxHandle
Versions == 0..MaxVersion
Names == {"pool1", "pool2"}
Configs == {"None", "Some"}

\* ------------------------------------------------------------ IndyResult
Ok(v) == [ok |-> TRUE, val |-> v, kind |-> "", msg |-> ""]
Err(k, m) == [ok |-> FALSE, val |-> "", kind |-> k, msg |-> m]
OkUnit == Ok("()")
HandleText(h) == ToString(h)

\* errors the external PoolService hands back
ServiceErrors == {Err("PoolLedgerTerminated", "service")}
UnitResults == {OkUnit} \cup ServiceErrors
\* results a CloseAck command carries
AckResults == {OkUnit, Err("PoolLedgerTimeout", "close")}
OpenResults == {Ok(HandleText(h)) : h \in PoolHandles} \cup ServiceErrors
\* PoolService::close: Ok(cmd_id) or Err
CloseResults == {[ok |-> TRUE, id |-> i, err |-> OkUnit] : i \in CmdIds}
                  \cup {[ok |-> FALSE, id |-> 0, err |-> e] : e \in ServiceErrors}
\* PoolService::list: Ok(pools) or Err; pools is a list of pool names
PoolLists == {<<>>, <<"pool1", "pool2">>}
ListResults == {[ok |-> TRUE, pools |-> p, err |-> OkUnit] : p \in PoolLists}
                  \cup {[ok |-> FALSE, pools |-> <<>>, err |-> e] : e \in ServiceErrors}

\* IndyError::from applied to an IndyError (result.map_err(IndyError::from), `?`)
IndyErrorFrom(e) == e
MapErr(r) == IF r.ok THEN r ELSE IndyErrorFrom(r)
\* BorrowMutError converted with err.into()
BorrowMutError == Err("InvalidState", "already mutably borrowed")

VARIABLES
    close_callbacks,   \* RefCell<HashMap<CommandHandle, cb>>: cmd id -> token of the parked callback, 0 = absent
    borrowed,          \* the RefCell's borrow flag: a RefMut of close_callbacks is alive
    protocol_version,  \* ProtocolVersion, the process-wide value
    cmds,              \* the commands executed so far, in dispatch order; the index is the command's token
    invoked            \* per token: the results its callback has been called with, in order

vars == <<close_callbacks, borrowed, protocol_version, cmds, invoked>>

NoCb == 0
\* the protocol versions set_protocol_version accepts
SupportedVersions == {1, 2}

\* a command of the history (a List also records pools, the list the service returned,
\* and ser, the outcome of serde_json::to_string: "ok", "failed", "none" (not called))
\*   op   the PoolCommand variant
\*   st   "suspended" (at the service's .await), "callback" (CloseAck: the callback it
\*        invoked has not returned), "returned" (execute has returned)
\*   arg  CloseAck: the command handle; SetProtocolVersion: the version;
\*        Close: the cmd id the service issued (0: the service failed)
\*   res  CloseAck: the result it carries; otherwise the service's outcome
\*   hit  CloseAck: the token whose callback it removed and invoked (0: none);
\*        Close: the id its callback was inserted under (0: not inserted)
\*   lock the outcome of try_borrow_mut: "ok", "failed", "none" (not attempted)
Cmd(op, st, arg, res, hit, lock) ==
    [op |-> op, st |-> st, arg |-> arg, res |-> res, hit |-> hit, lock |-> lock]

Pending == Err("", "pending")

Init ==
    /\ close_callbacks = [i \in CmdIds |-> NoCb]
    /\ borrowed = FALSE
    /\ protocol_version \in SupportedVersions
    /\ cmds = <<>>
    /\ invoked = [c \in Tokens |-> <<>>]

CanDispatch == Len(cmds) < MaxCmds
NextToken == Len(cmds) + 1
Call(c, r) == [invoked EXCEPT ![c] = Append(@, r)]

\* ---------------------------------------------------------------- create
\* mutant: the service's error is wrapped into an InvalidState error
create_WrapsError(svc) == IF svc.ok THEN OkUnit ELSE Err("InvalidState", svc.msg)

create(svc) == IF svc.ok THEN OkUnit ELSE IndyErrorFrom(svc)

ExecCreate(name, config, svc) ==
    /\ CanDispatch
    /\ invoked' = Call(NextToken, create(svc))
    /\ cmds' = Append(cmds, Cmd("Create", "returned", 0, svc, 0, "none"))
    /\ UNCHANGED <<close_callbacks, borrowed, protocol_version>>

\* ---------------------------------------------------------------- delete
delete(svc) == IF svc.ok THEN OkUnit ELSE IndyErrorFrom(svc)

\* mutant: deleting a pool also forgets the pending close callbacks
ExecDelete_ForgetsPending(name, svc) ==
    /\ CanDispatch
    /\ invoked' = Call(NextToken, delete(svc))
    /\ cmds' = Append(cmds, Cmd("Delete", "returned", 0, svc, 0, "none"))
    /\ close_callbacks' = [i \in CmdIds |-> NoCb]
    /\ UNCHANGED <<borrowed, protocol_version>>

\* execute's Delete arm
ExecDelete(name, svc) ==
    /\ CanDispatch
    /\ invoked' = Call(NextToken, delete(svc))
    /\ cmds' = Append(cmds, Cmd("Delete", "returned", 0, svc, 0, "none"))
    /\ UNCHANGED <<close_callbacks, borrowed, protocol_version>>

\* ------------------------------------------------------------------ open
\* execute's Open arm up to `self.pool_service.open(name, config).await`
ExecOpen(name, config) ==
    /\ CanDispatch
    /\ cmds' = Append(cmds, Cmd("Open", "suspended", 0, Pending, 0, "none"))
    /\ UNCHANGED <<close_callbacks, borrowed, protocol_version, invoked>>

\* mutant: the callback is called on success only
ResumeOpen_DropsError(c, result) ==
    /\ c \in 1..Len(cmds)
    /\ cmds[c].op = "Open"
    /\ cmds[c].st = "suspended"
    /\ invoked' = IF result.ok THEN Call(c, result) ELSE invoked
    /\ cmds' = [cmds EXCEPT ![c].st = "returned", ![c].res = result]
    /\ UNCHANGED <<close_callbacks, borrowed, protocol_version>>

\* the service call completes with `result`; open calls cb(result) and execute returns
ResumeOpen(c, result) ==
    /\ c \in 1..Len(cmds)
    /\ cmds[c].op = "Open"
    /\ cmds[c].st = "suspended"
    /\ invoked' = Call(c, result)
    /\ cmds' = [cmds EXCEPT ![c].st = "returned", ![c].res = result]
    /\ UNCHANGED <<close_callbacks, borrowed, protocol_version>>

\* ------------------------------------------------------------------ list
\* serde_json::to_string of the list of pools
RECURSIVE JoinPools(_)
JoinPools(pools) ==
    IF pools = <<>> THEN ""
    ELSE IF Len(pools) = 1 THEN "{\"pool\":\"" \o Head(pools) \o "\"}"
    ELSE "{\"pool\":\"" \o Head(pools) \o "\"}," \o JoinPools(Tail(pools))
ToJson(pools) == "[" \o JoinPools(pools) \o "]"

SerializeError == Err("InvalidState", "Can't serialize pools list")

\* mutant: an empty list of pools is taken for a failure to serialize
list_EmptyFails(svc, serOk) ==
    IF ~svc.ok THEN IndyErrorFrom(svc.err)
    ELSE IF serOk /\ svc.pools # <<>> THEN Ok(ToJson(svc.pools))
    ELSE SerializeError

\* serOk: whether serde_json::to_string returned Ok
list(svc, serOk) ==
    IF ~svc.ok THEN IndyErrorFrom(svc.err)
    ELSE IF serOk THEN Ok(ToJson(svc.pools))
    ELSE SerializeError

ExecList(svc, serOk) ==
    /\ CanDispatch
    /\ invoked' = Call(NextToken, list(svc, serOk))
    /\ cmds' = Append(cmds, Cmd("List", "returned", 0, IF svc.ok THEN OkUnit ELSE svc.err, 0, "none")
                                @@ [pools |-> svc.pools,
                                    ser |-> IF ~svc.ok THEN "none" ELSE IF serOk THEN "ok" ELSE "failed"])
    /\ UNCHANGED <<close_callbacks, borrowed, protocol_version>>

\* ----------------------------------------------------------------- close
\* mutant: the callback is registered and also called at once with Ok
close_CallsAtOnce(c, pool_handle, svc) ==
    LET locked == svc.ok /\ ~borrowed
        result == IF ~svc.ok THEN svc.err
                  ELSE IF borrowed THEN BorrowMutError
                  ELSE OkUnit
    IN  /\ invoked' = Call(c, result)
        /\ close_callbacks' = IF result.ok THEN [close_callbacks EXCEPT ![svc.id] = c]
                                          ELSE close_callbacks
        /\ cmds' = Append(cmds, Cmd("Close", "returned", svc.id, svc.err,
                                    IF locked THEN svc.id ELSE 0,
                                    IF ~svc.ok THEN "none" ELSE IF borrowed THEN "failed" ELSE "ok"))
        /\ UNCHANGED <<borrowed, protocol_version>>

\* mutant: a service error is logged and the callback is dropped
close_DropsError(c, pool_handle, svc) ==
    LET locked == svc.ok /\ ~borrowed
        result == IF ~svc.ok THEN svc.err
                  ELSE IF borrowed THEN BorrowMutError
                  ELSE OkUnit
    IN  /\ IF ~result.ok
           THEN /\ invoked' = IF svc.ok THEN Call(c, result) ELSE invoked
                /\ close_callbacks' = close_callbacks
           ELSE /\ close_callbacks' = [close_callbacks EXCEPT ![svc.id] = c]
                /\ invoked' = invoked
        /\ cmds' = Append(cmds, Cmd("Close", "returned", svc.id, svc.err,
                                    IF locked THEN svc.id ELSE 0,
                                    IF ~svc.ok THEN "none" ELSE IF borrowed THEN "failed" ELSE "ok"))
        /\ UNCHANGED <<borrowed, protocol_version>>

\* mutant: a failed try_borrow_mut is reported to the callback, and the callback is
\* registered all the same
close_InsertsAnyway(c, pool_handle, svc) ==
    LET locked == svc.ok /\ ~borrowed
        result == IF ~svc.ok THEN svc.err
                  ELSE IF borrowed THEN BorrowMutError
                  ELSE OkUnit
    IN  /\ invoked' = IF ~result.ok THEN Call(c, result) ELSE invoked
        /\ close_callbacks' = IF svc.ok THEN [close_callbacks EXCEPT ![svc.id] = c]
                                       ELSE close_callbacks
        /\ cmds' = Append(cmds, Cmd("Close", "returned", svc.id, svc.err,
                                    IF locked THEN svc.id ELSE 0,
                                    IF ~svc.ok THEN "none" ELSE IF borrowed THEN "failed" ELSE "ok"))
        /\ UNCHANGED <<borrowed, protocol_version>>

\* mutant: entry(cmd_id).or_insert(cb): a key already present keeps its callback
close_KeepsFirst(c, pool_handle, svc) ==
    LET locked == svc.ok /\ ~borrowed
        result == IF ~svc.ok THEN svc.err
                  ELSE IF borrowed THEN BorrowMutError
                  ELSE OkUnit
    IN  /\ IF ~result.ok
           THEN /\ invoked' = Call(c, result)
                /\ close_callbacks' = close_callbacks
           ELSE /\ close_callbacks' = IF close_callbacks[svc.id] = NoCb
                                      THEN [close_callbacks EXCEPT ![svc.id] = c]
                                      ELSE close_callbacks
                /\ invoked' = invoked
        /\ cmds' = Append(cmds, Cmd("Close", "returned", svc.id, svc.err,
                                    IF locked THEN svc.id ELSE 0,
                                    IF ~svc.ok THEN "none" ELSE IF borrowed THEN "failed" ELSE "ok"))
        /\ UNCHANGED <<borrowed, protocol_version>>

\* svc: the outcome of pool_service.close(pool_handle); c: the token of the Close's cb
close(c, pool_handle, svc) ==
    LET locked == svc.ok /\ ~borrowed         \* result is Ok((cbs, cmd_id))
        result == IF ~svc.ok THEN svc.err
                  ELSE IF borrowed THEN BorrowMutError
                  ELSE OkUnit
    IN  /\ IF ~result.ok
           THEN /\ invoked' = Call(c, result)
                /\ close_callbacks' = close_callbacks
           ELSE /\ close_callbacks' = [close_callbacks EXCEPT ![svc.id] = c]
                /\ invoked' = invoked
        /\ cmds' = Append(cmds, Cmd("Close", "returned", svc.id, svc.err,
                                    IF locked THEN svc.id ELSE 0,
                                    IF ~svc.ok THEN "none" ELSE IF borrowed THEN "failed" ELSE "ok"))
        /\ UNCHANGED <<borrowed, protocol_version>>

\* mutant: the Close is taken up only once no Open or Refresh is in flight
ExecClose_AfterFlows(pool_handle, svc) ==
    /\ CanDispatch
    /\ \A f \in 1..Len(cmds) : cmds[f].st # "suspended"
    /\ close(NextToken, pool_handle, svc)

\* execute's Close arm
ExecClose(pool_handle, svc) ==
    /\ CanDispatch
    /\ close(NextToken, pool_handle, svc)

\* -------------------------------------------------------------- CloseAck
\* mutant: the callback is looked up with get, not taken out with remove
ExecCloseAck_NoRemove(handle, result) ==
    /\ CanDispatch
    /\ IF borrowed
       THEN /\ cmds' = Append(cmds, Cmd("CloseAck", "returned", handle, result, 0, "failed"))
            /\ UNCHANGED <<close_callbacks, borrowed, protocol_version, invoked>>
       ELSE IF close_callbacks[handle] # NoCb
       THEN /\ invoked' = Call(close_callbacks[handle], MapErr(result))
            /\ borrowed' = TRUE
            /\ cmds' = Append(cmds, Cmd("CloseAck", "callback", handle, result,
                                        close_callbacks[handle], "ok"))
            /\ UNCHANGED <<close_callbacks, protocol_version>>
       ELSE /\ cmds' = Append(cmds, Cmd("CloseAck", "returned", handle, result, 0, "ok"))
            /\ UNCHANGED <<close_callbacks, borrowed, protocol_version, invoked>>

\* mutant: a missing callback is unwrapped, the executor panics with the table borrowed
ExecCloseAck_Unwrap(handle, result) ==
    /\ CanDispatch
    /\ IF borrowed
       THEN /\ cmds' = Append(cmds, Cmd("CloseAck", "returned", handle, result, 0, "failed"))
            /\ UNCHANGED <<close_callbacks, borrowed, protocol_version, invoked>>
       ELSE IF close_callbacks[handle] # NoCb
       THEN /\ close_callbacks' = [close_callbacks EXCEPT ![handle] = NoCb]
            /\ invoked' = Call(close_callbacks[handle], MapErr(result))
            /\ borrowed' = TRUE
            /\ cmds' = Append(cmds, Cmd("CloseAck", "callback", handle, result,
                                        close_callbacks[handle], "ok"))
            /\ UNCHANGED protocol_version
       ELSE /\ cmds' = Append(cmds, Cmd("CloseAck", "panicked", handle, result, 0, "ok"))
            /\ UNCHANGED <<close_callbacks, borrowed, protocol_version, invoked>>

\* mutant: the handle is only tested for presence; the entry taken out is the first pending one
ExecCloseAck_WrongEntry(handle, result) ==
    /\ CanDispatch
    /\ IF borrowed
       THEN /\ cmds' = Append(cmds, Cmd("CloseAck", "returned", handle, result, 0, "failed"))
            /\ UNCHANGED <<close_callbacks, borrowed, protocol_version, invoked>>
       ELSE IF close_callbacks[handle] # NoCb
       THEN LET k == CHOOSE j \in CmdIds :
                        /\ close_callbacks[j] # NoCb
                        /\ \A i \in CmdIds : close_callbacks[i] # NoCb => j <= i
            IN  /\ close_callbacks' = [close_callbacks EXCEPT ![k] = NoCb]
                /\ invoked' = Call(close_callbacks[k], MapErr(result))
                /\ borrowed' = TRUE
                /\ cmds' = Append(cmds, Cmd("CloseAck", "callback", handle, result,
                                            close_callbacks[k], "ok"))
                /\ UNCHANGED protocol_version
       ELSE /\ cmds' = Append(cmds, Cmd("CloseAck", "returned", handle, result, 0, "ok"))
            /\ UNCHANGED <<close_callbacks, borrowed, protocol_version, invoked>>

\* mutant: borrow_mut in place of try_borrow_mut: a table already borrowed panics
ExecCloseAck_BorrowMut(handle, result) ==
    /\ CanDispatch
    /\ IF borrowed
       THEN /\ cmds' = Append(cmds, Cmd("CloseAck", "panicked", handle, result, 0, "failed"))
            /\ UNCHANGED <<close_callbacks, borrowed, protocol_version, invoked>>
       ELSE IF close_callbacks[handle] # NoCb
       THEN /\ close_callbacks' = [close_callbacks EXCEPT ![handle] = NoCb]
            /\ invoked' = Call(close_callbacks[handle], MapErr(result))
            /\ borrowed' = TRUE
            /\ cmds' = Append(cmds, Cmd("CloseAck", "callback", handle, result,
                                        close_callbacks[handle], "ok"))
            /\ UNCHANGED protocol_version
       ELSE /\ cmds' = Append(cmds, Cmd("CloseAck", "returned", handle, result, 0, "ok"))
            /\ UNCHANGED <<close_callbacks, borrowed, protocol_version, invoked>>

\* mutant: cbs is dropped before the callback is called
ExecCloseAck_ReleasesFirst(handle, result) ==
    /\ CanDispatch
    /\ IF borrowed
       THEN /\ cmds' = Append(cmds, Cmd("CloseAck", "returned", handle, result, 0, "failed"))
            /\ UNCHANGED <<close_callbacks, borrowed, protocol_version, invoked>>
       ELSE IF close_callbacks[handle] # NoCb
       THEN /\ close_callbacks' = [close_callbacks EXCEPT ![handle] = NoCb]
            /\ invoked' = Call(close_callbacks[handle], MapErr(result))
            /\ borrowed' = FALSE
            /\ cmds' = Append(cmds, Cmd("CloseAck", "callback", handle, result,
                                        close_callbacks[handle], "ok"))
            /\ UNCHANGED protocol_version
       ELSE /\ cmds' = Append(cmds, Cmd("CloseAck", "returned", handle, result, 0, "ok"))
            /\ UNCHANGED <<close_callbacks, borrowed, protocol_version, invoked>>

\* execute's CloseAck arm up to and including the call of the callback it finds
ExecCloseAck(handle, result) ==
    /\ CanDispatch
    /\ IF borrowed
       THEN \* try_borrow_mut failed: error!("{:?}", err)
            /\ cmds' = Append(cmds, Cmd("CloseAck", "returned", handle, result, 0, "failed"))
            /\ UNCHANGED <<close_callbacks, borrowed, protocol_version, invoked>>
       ELSE IF close_callbacks[handle] # NoCb
       THEN \* cbs.remove(&handle) is Some(cb): cb(result.map_err(IndyError::from)), cbs still alive
            /\ close_callbacks' = [close_callbacks EXCEPT ![handle] = NoCb]
            /\ invoked' = Call(close_callbacks[handle], MapErr(result))
            /\ borrowed' = TRUE
            /\ cmds' = Append(cmds, Cmd("CloseAck", "callback", handle, result,
                                        close_callbacks[handle], "ok"))
            /\ UNCHANGED protocol_version
       ELSE \* None: error!("... appropriate callback not found!")
            /\ cmds' = Append(cmds, Cmd("CloseAck", "returned", handle, result, 0, "ok"))
            /\ UNCHANGED <<close_callbacks, borrowed, protocol_version, invoked>>

\* the callback a CloseAck invoked returns: cbs is dropped and execute returns
CallbackReturn(c) ==
    /\ c \in 1..Len(cmds)
    /\ cmds[c].st = "callback"
    /\ borrowed' = FALSE
    /\ cmds' = [cmds EXCEPT ![c].st = "returned"]
    /\ UNCHANGED <<close_callbacks, protocol_version, invoked>>

\* --------------------------------------------------------------- refresh
\* mutant: a RefMut of close_callbacks is taken before the await and kept across it
ExecRefresh_HoldsBorrow(handle) ==
    /\ CanDispatch
    /\ cmds' = Append(cmds, Cmd("Refresh", "suspended", 0, Pending, 0, "none"))
    /\ borrowed' = TRUE
    /\ UNCHANGED <<close_callbacks, protocol_version, invoked>>

\* execute's Refresh arm up to `self.pool_service.refresh(handle).await`
ExecRefresh(handle) ==
    /\ CanDispatch
    /\ cmds' = Append(cmds, Cmd("Refresh", "suspended", 0, Pending, 0, "none"))
    /\ UNCHANGED <<close_callbacks, borrowed, protocol_version, invoked>>

\* mutant: a failed refresh is logged and the callback is not called
ResumeRefresh_DropsError(c, result) ==
    /\ c \in 1..Len(cmds)
    /\ cmds[c].op = "Refresh"
    /\ cmds[c].st = "suspended"
    /\ invoked' = IF result.ok THEN Call(c, result) ELSE invoked
    /\ cmds' = [cmds EXCEPT ![c].st = "returned", ![c].res = result]
    /\ UNCHANGED <<close_callbacks, borrowed, protocol_version>>

\* the service call completes with `result`; refresh calls cb(result) and execute returns
ResumeRefresh(c, result) ==
    /\ c \in 1..Len(cmds)
    /\ cmds[c].op = "Refresh"
    /\ cmds[c].st = "suspended"
    /\ invoked' = Call(c, result)
    /\ cmds' = [cmds EXCEPT ![c].st = "returned", ![c].res = result]
    /\ UNCHANGED <<close_callbacks, borrowed, protocol_version>>

\* -------------------------------------------------- set_protocol_version
IncompatibleVersion == Err("PoolIncompatibleProtocolVersion", "Unsupported Protocol version")

\* mutant: ProtocolVersion::set runs before the check
set_protocol_version_SetsFirst(version) ==
    IF version # 1 /\ version # 2
    THEN [res |-> IncompatibleVersion, pv |-> version]
    ELSE [res |-> OkUnit, pv |-> version]

\* res: the IndyResult returned; pv: ProtocolVersion afterwards
set_protocol_version(version) ==
    IF version # 1 /\ version # 2
    THEN [res |-> IncompatibleVersion, pv |-> protocol_version]
    ELSE [res |-> OkUnit, pv |-> version]

ExecSetProtocolVersion(version) ==
    /\ CanDispatch
    /\ invoked' = Call(NextToken, set_protocol_version(version).res)
    /\ protocol_version' = set_protocol_version(version).pv
    /\ cmds' = Append(cmds, Cmd("SetProtocolVersion", "returned", version, OkUnit, 0, "none"))
    /\ UNCHANGED <<close_callbacks, borrowed>>

\* --------------------------------------------------------------- execute
Next ==
    \/ \E name \in Names, config \in Configs, svc \in UnitResults : ExecCreate(name, config, svc)
    \/ \E name \in Names, svc \in UnitResults : ExecDelete(name, svc)
    \/ \E name \in Names, config \in Configs : ExecOpen(name, config)
    \/ \E c \in Tokens, result \in OpenResults : ResumeOpen(c, result)
    \/ \E svc \in ListResults, serOk \in BOOLEAN : ExecList(svc, serOk)
    \/ \E id \in CmdIds, result \in AckResults : ExecCloseAck(id, result)
    \/ \E h \in PoolHandles, svc \in CloseResults : ExecClose(h, svc)
    \/ \E c \in Tokens : CallbackReturn(c)
    \/ \E h \in PoolHandles : ExecRefresh(h)
    \/ \E c \in Tokens, result \in UnitResults : ResumeRefresh(c, result)
    \/ \E version \in Versions : ExecSetProtocolVersion(version)

Spec == Init /\ [][Next]_vars

\* every suspended service call completes and its flow is resumed
FairSpec ==
    /\ Spec
    /\ \A c \in Tokens :
          /\ WF_vars(\E result \in OpenResults : ResumeOpen(c, result))
          /\ WF_vars(\E result \in UnitResults : ResumeRefresh(c, result))

\* ================================================================ claims
\* the step dispatches a command; New is that command as the history records it
Dispatched == Len(cmds') = Len(cmds) + 1
New == cmds'[Len(cmds')]
Min(S) == CHOOSE x \in S : \A y \in S : x <= y

\* the CloseAck commands after Close c that carry the id the service gave c
AcksFor(c) ==
    {a \in (c + 1)..Len(cmds) : cmds[a].op = "CloseAck" /\ cmds[a].arg = cmds[c].arg}
\* the Close commands after c that were registered under c's id
Replacing(c) ==
    {d \in (c + 1)..Len(cmds) : cmds[d].op = "Close" /\ cmds[d].hit = cmds[c].arg}
\* the CloseAcks for c's id that borrowed the table before any later Close took the id over
Finding(c) ==
    {a \in AcksFor(c) : cmds[a].lock = "ok" /\ \A d \in Replacing(c) : d > a}

\* C1 as stated: every Close the service gave a correlation id has its callback invoked
\* exactly once, with the result of the first CloseAck carrying that id, and not before it.
C1_Original ==
    \A c \in 1..Len(cmds) :
        (cmds[c].op = "Close" /\ cmds[c].arg # 0) =>
            IF AcksFor(c) = {}
            THEN invoked[c] = <<>>
            ELSE invoked[c] = <<cmds[Min(AcksFor(c))].res>>

\* C1 (amended): the callback of a Close that was registered in close_callbacks is never
\* invoked while its entry is stored, never more than once, and only by a CloseAck that
\* carries its id, with exactly that CloseAck's result; the first CloseAck carrying the id
\* that borrows the table while the entry is still the stored one invokes it.
C1_RegisteredCloseOnce ==
    \A c \in 1..Len(cmds) :
        (cmds[c].op = "Close" /\ cmds[c].hit # 0) =>
            /\ Len(invoked[c]) <= 1
            /\ close_callbacks[cmds[c].hit] = c => invoked[c] = <<>>
            /\ invoked[c] # <<>> =>
                  \E a \in AcksFor(c) : cmds[a].hit = c /\ invoked[c] = <<cmds[a].res>>
            /\ Finding(c) # {} =>
                  /\ cmds[Min(Finding(c))].hit = c
                  /\ invoked[c] = <<cmds[Min(Finding(c))].res>>

C1_Witness ==
    \E c \in 1..Len(cmds), a \in 1..Len(cmds) :
        /\ cmds[c].op = "Close" /\ cmds[c].hit # 0
        /\ a \in AcksFor(c) /\ cmds[a].hit = c /\ cmds[a].st = "returned"
        /\ ~cmds[a].res.ok
        /\ invoked[c] = <<cmds[a].res>>

NonDeferred == {"Create", "Delete", "Open", "List", "Refresh", "SetProtocolVersion"}

\* C2: a Create, Delete, Open, List, Refresh or SetProtocolVersion whose execute has
\* returned has had its callback invoked exactly once; before that (suspended) not at all.
C2_NonDeferredExactlyOnce ==
    \A c \in 1..Len(cmds) :
        cmds[c].op \in NonDeferred =>
            /\ cmds[c].st = "returned" => Len(invoked[c]) = 1
            /\ cmds[c].st # "returned" => invoked[c] = <<>>

C2_Witness ==
    \E c \in 1..Len(cmds), d \in 1..Len(cmds) :
        /\ cmds[c].op = "Open" /\ cmds[c].st = "returned"
        /\ Len(invoked[c]) = 1 /\ ~invoked[c][1].ok
        /\ cmds[d].op = "SetProtocolVersion" /\ cmds[d].st = "returned"
        /\ Len(invoked[d]) = 1 /\ invoked[d][1].ok

\* C3: a CloseAck whose id is not in close_callbacks invokes no callback, leaves the table
\* and the borrow flag as they were, and returns normally.
C3_OrphanAck ==
    [][(Dispatched /\ New.op = "CloseAck" /\ close_callbacks[New.arg] = NoCb) =>
          /\ invoked' = invoked
          /\ close_callbacks' = close_callbacks
          /\ borrowed' = borrowed
          /\ New.st = "returned"]_vars

\* a CloseAck for an id never registered, and one for an id an earlier CloseAck resolved
C3_Witness ==
    \E a \in 1..Len(cmds), b \in 1..Len(cmds) :
        /\ b < a
        /\ cmds[a].op = "CloseAck" /\ cmds[a].hit = 0 /\ cmds[a].lock = "ok"
        /\ cmds[b].op = "CloseAck" /\ cmds[b].hit # 0 /\ cmds[b].arg = cmds[a].arg
        /\ cmds[a].st = "returned"

\* C4 as stated: a Close the service gave a correlation id only inserts {id -> its callback}.
C4_Original ==
    [][(Dispatched /\ New.op = "Close" /\ New.arg # 0) =>
          /\ close_callbacks' = [close_callbacks EXCEPT ![New.arg] = Len(cmds')]
          /\ invoked' = invoked
          /\ borrowed' = borrowed
          /\ protocol_version' = protocol_version]_vars

\* C4 (amended): a Close the service gave a correlation id, executed while close_callbacks
\* is not borrowed, only inserts {id -> its callback}: no callback is invoked and nothing
\* else changes.
C4_CloseOnlyInserts ==
    [][(Dispatched /\ New.op = "Close" /\ New.arg # 0 /\ ~borrowed) =>
          /\ close_callbacks' = [close_callbacks EXCEPT ![New.arg] = Len(cmds')]
          /\ invoked' = invoked
          /\ borrowed' = borrowed
          /\ protocol_version' = protocol_version
          /\ New.st = "returned"]_vars

C4_Witness ==
    \E c \in 1..Len(cmds) :
        /\ cmds[c].op = "Close" /\ cmds[c].arg # 0 /\ cmds[c].lock = "ok"
        /\ close_callbacks[cmds[c].arg] = c
        /\ invoked[c] = <<>>

\* C5: a Close whose service call fails invokes its callback, within the command, with the
\* service's error, and leaves close_callbacks as it was.
C5_CloseServiceError ==
    [][(Dispatched /\ New.op = "Close" /\ New.arg = 0) =>
          /\ invoked' = [invoked EXCEPT ![Len(cmds')] = <<New.res>>]
          /\ ~New.res.ok
          /\ close_callbacks' = close_callbacks
          /\ New.st = "returned"]_vars

C5_Witness ==
    \E c \in 1..Len(cmds), k \in CmdIds :
        /\ cmds[c].op = "Close" /\ cmds[c].arg = 0
        /\ invoked[c] = <<cmds[c].res>> /\ cmds[c].res \in ServiceErrors
        /\ close_callbacks[k] # NoCb /\ close_callbacks[k] < c

\* C6: SetProtocolVersion(v) delivers Ok and sets ProtocolVersion to v exactly when v is 1
\* or 2; for any other v it delivers the incompatible-version error and ProtocolVersion
\* keeps its value.
C6_SetProtocolVersion ==
    [][(Dispatched /\ New.op = "SetProtocolVersion") =>
          IF New.arg \in {1, 2}
          THEN /\ invoked'[Len(cmds')] = <<OkUnit>>
               /\ protocol_version' = New.arg
          ELSE /\ invoked'[Len(cmds')] = <<IncompatibleVersion>>
               /\ protocol_version' = protocol_version]_vars

C6_Witness ==
    \E c \in 1..Len(cmds), d \in 1..Len(cmds) :
        /\ c < d
        /\ cmds[c].op = "SetProtocolVersion" /\ cmds[c].arg = 2 /\ invoked[c] = <<OkUnit>>
        /\ cmds[d].op = "SetProtocolVersion" /\ cmds[d].arg = 3
        /\ invoked[d] = <<IncompatibleVersion>>
        /\ protocol_version = 2

\* C7 as stated: an entry of close_callbacks appears only by a Close inserting its own
\* callback under an id that has no entry, disappears only by a CloseAck carrying its id,
\* and is never replaced.
C7_Original ==
    [][\A k \in CmdIds :
          close_callbacks'[k] # close_callbacks[k] =>
              \/ /\ close_callbacks[k] = NoCb
                 /\ Dispatched /\ New.op = "Close" /\ New.arg = k
                 /\ close_callbacks'[k] = Len(cmds')
              \/ /\ close_callbacks'[k] = NoCb
                 /\ Dispatched /\ New.op = "CloseAck" /\ New.arg = k]_vars

\* C8: a Close or CloseAck touches no entry of close_callbacks but the one of its own id,
\* and a CloseAck(id, r) calls no callback but the one stored under id, registered there by
\* its Close, with r.
C8_NoCrossDelivery ==
    [][(Dispatched /\ New.op \in {"Close", "CloseAck"}) =>
          /\ \A k \in CmdIds \ {New.arg} : close_callbacks'[k] = close_callbacks[k]
          /\ New.op = "CloseAck" =>
                \A c \in Tokens :
                    invoked'[c] # invoked[c] =>
                        /\ close_callbacks[New.arg] = c
                        /\ cmds[c].op = "Close" /\ cmds[c].hit = New.arg
                        /\ invoked'[c] = Append(invoked[c], New.res)]_vars

\* two pending Closes under different ids; the CloseAck for the later one reached only it
C8_Witness ==
    \E c \in 1..Len(cmds), d \in 1..Len(cmds), a \in 1..Len(cmds) :
        /\ c < d /\ d < a
        /\ cmds[c].op = "Close" /\ cmds[d].op = "Close"
        /\ cmds[c].hit # 0 /\ cmds[d].hit # 0 /\ cmds[c].hit # cmds[d].hit
        /\ cmds[a].op = "CloseAck" /\ cmds[a].arg = cmds[d].hit /\ cmds[a].hit = d
        /\ ~cmds[a].res.ok
        /\ invoked[d] = <<cmds[a].res>>
        /\ invoked[c] = <<>> /\ close_callbacks[cmds[c].hit] = c

Suspended(c) == c \in 1..Len(cmds) /\ cmds[c].st = "suspended"

\* C9: under fair resumption, an Open or Refresh suspended on its service call eventually
\* returns with its callback invoked with the service's outcome (a handle or an error for
\* Open, unit or an error for Refresh), and the callback is never invoked twice.
C9_SuspendedResolves ==
    \A c \in Tokens :
        /\ Suspended(c) ~>
              /\ c <= Len(cmds)
              /\ cmds[c].st = "returned"
              /\ invoked[c] = <<cmds[c].res>>
              /\ cmds[c].res \in (IF cmds[c].op = "Open" THEN OpenResults ELSE UnitResults)
        /\ []((c <= Len(cmds) /\ cmds[c].op \in {"Open", "Refresh"}) => Len(invoked[c]) <= 1)

C9_Witness ==
    \E c \in 1..Len(cmds), d \in 1..Len(cmds) :
        /\ cmds[c].op = "Open" /\ cmds[c].st = "returned"
        /\ invoked[c] = <<cmds[c].res>> /\ cmds[c].res.ok
        /\ cmds[d].op = "Refresh" /\ cmds[d].st = "returned"
        /\ invoked[d] = <<cmds[d].res>> /\ ~cmds[d].res.ok

\* C10: while an Open or Refresh is suspended, every other command can be executed (as long
\* as the history has room for it) and every suspended flow can be resumed, whichever it is.
C10_NoBlocking ==
    (\E f \in Tokens : Suspended(f)) =>
        /\ CanDispatch =>
              /\ \A name \in Names, config \in Configs : ENABLED ExecOpen(name, config)
              /\ \A h \in PoolHandles : ENABLED ExecRefresh(h)
              /\ \A name \in Names, config \in Configs, svc \in UnitResults :
                    ENABLED ExecCreate(name, config, svc)
              /\ \A name \in Names, svc \in UnitResults : ENABLED ExecDelete(name, svc)
              /\ \A svc \in ListResults, serOk \in BOOLEAN : ENABLED ExecList(svc, serOk)
              /\ \A h \in PoolHandles, svc \in CloseResults : ENABLED ExecClose(h, svc)
              /\ \A id \in CmdIds, result \in AckResults : ENABLED ExecCloseAck(id, result)
              /\ \A version \in Versions : ENABLED ExecSetProtocolVersion(version)
        /\ \A f \in Tokens :
              Suspended(f) =>
                  IF cmds[f].op = "Open"
                  THEN \A result \in OpenResults : ENABLED ResumeOpen(f, result)
                  ELSE \A result \in UnitResults : ENABLED ResumeRefresh(f, result)

\* an Open still suspended while an Open dispatched after it has returned and a Close
\* dispatched after it has been registered
C10_Witness ==
    \E c \in 1..Len(cmds), d \in 1..Len(cmds), e \in 1..Len(cmds) :
        /\ c < d /\ c < e
        /\ cmds[c].op = "Open" /\ cmds[c].st = "suspended"
        /\ cmds[d].op = "Open" /\ cmds[d].st = "returned" /\ Len(invoked[d]) = 1
        /\ cmds[e].op = "Close" /\ cmds[e].hit # 0

C13_ServiceOutcomeUnchanged ==
    \A c \in 1..Len(cmds) :
        (cmds[c].op \in {"Create", "Delete", "Open", "Refresh"} /\ cmds[c].st = "returned") =>
            /\ invoked[c] = <<cmds[c].res>>
            /\ cmds[c].res \in (IF cmds[c].op = "Open" THEN OpenResults ELSE UnitResults)

C13_Witness ==
    \E c \in 1..Len(cmds), d \in 1..Len(cmds), e \in 1..Len(cmds) :
        /\ cmds[c].op = "Create" /\ cmds[c].res \in ServiceErrors /\ invoked[c] = <<cmds[c].res>>
        /\ cmds[d].op = "Open" /\ invoked[d] = <<Ok(HandleText(MaxHandle))>>
        /\ cmds[e].op = "Delete" /\ invoked[e] = <<OkUnit>>

C15_OnlyCloseAndAckTouchTable ==
    [][close_callbacks' # close_callbacks =>
          (Dispatched /\ New.op \in {"Close", "CloseAck"})]_vars

\* an entry still pending after a Delete, a resumed Open and a resumed Refresh or
\* SetProtocolVersion were executed behind its Close
C15_Witness ==
    \E c \in 1..Len(cmds), d \in 1..Len(cmds), e \in 1..Len(cmds) :
        /\ c < d /\ c < e
        /\ cmds[c].op = "Close" /\ cmds[c].hit # 0 /\ close_callbacks[cmds[c].hit] = c
        /\ cmds[d].op = "Open" /\ cmds[d].st = "returned"
        /\ cmds[e].op \in {"Delete", "SetProtocolVersion", "Refresh"} /\ cmds[e].st = "returned"

\* C16 as stated: an entry of close_callbacks stays, and its callback is not called, in
\* every step that is not a CloseAck carrying its id.
C16_Original ==
    [][\A k \in CmdIds :
          (close_callbacks[k] # NoCb /\ ~(Dispatched /\ New.op = "CloseAck" /\ New.arg = k)) =>
              /\ close_callbacks'[k] = close_callbacks[k]
              /\ invoked'[close_callbacks[k]] = invoked[close_callbacks[k]]]_vars

\* in history h, Close d was registered under the id of Close c while c's entry was stored
OverwrittenIn(h, c, d) ==
    /\ c < d /\ d <= Len(h)
    /\ h[c].op = "Close" /\ h[d].op = "Close"
    /\ h[c].hit # 0 /\ h[d].hit = h[c].hit
    /\ \A a \in (c + 1)..(d - 1) : ~(h[a].op = "CloseAck" /\ h[a].hit = c)

\* C17: a Close registered under an id that already has an entry replaces the entry by its
\* own callback and calls nothing; the replaced callback is never called and never stored
\* again, and a CloseAck calls only the callback stored under its id.
C17_InsertOverwrites ==
    [][/\ (Dispatched /\ New.op = "Close" /\ New.hit # 0 /\ close_callbacks[New.hit] # NoCb) =>
             /\ close_callbacks' = [close_callbacks EXCEPT ![New.hit] = Len(cmds')]
             /\ invoked' = invoked
       /\ \A c \in 1..Len(cmds'), d \in 1..Len(cmds') :
             OverwrittenIn(cmds', c, d) =>
                 /\ invoked'[c] = <<>>
                 /\ \A k \in CmdIds : close_callbacks'[k] # c
       /\ (Dispatched /\ New.op = "CloseAck" /\ New.hit # 0) =>
             /\ New.hit = close_callbacks[New.arg]
             /\ invoked' = [invoked EXCEPT ![New.hit] = Append(@, New.res)]]_vars

\* two Closes under one id, then the CloseAck: the later callback got the result
C17_Witness ==
    \E c \in 1..Len(cmds), d \in 1..Len(cmds), a \in 1..Len(cmds) :
        /\ OverwrittenIn(cmds, c, d) /\ d < a
        /\ cmds[a].op = "CloseAck" /\ cmds[a].arg = cmds[c].hit /\ cmds[a].hit = d
        /\ invoked[d] = <<cmds[a].res>>
        /\ invoked[c] = <<>>

\* C18: close_callbacks is borrowed only while the callback a CloseAck invoked is running,
\* never by a suspended Open or Refresh, and try_borrow_mut fails only for a command
\* executed while such a callback is running.
C18_BorrowOnlyInCallback ==
    [][/\ borrowed' =>
             \E a \in 1..Len(cmds') : cmds'[a].op = "CloseAck" /\ cmds'[a].st = "callback"
       /\ (Dispatched /\ New.lock = "failed") =>
             \E a \in 1..Len(cmds) : cmds[a].op = "CloseAck" /\ cmds[a].st = "callback"]_vars

\* a Close and a CloseAck acquire the table while a Refresh dispatched before them is suspended
C18_Witness ==
    \E f \in 1..Len(cmds), c \in 1..Len(cmds), a \in 1..Len(cmds) :
        /\ f < c /\ c < a
        /\ cmds[f].op \in {"Open", "Refresh"} /\ cmds[f].st = "suspended"
        /\ cmds[c].op = "Close" /\ cmds[c].lock = "ok"
        /\ cmds[a].op = "CloseAck" /\ cmds[a].lock = "ok" /\ cmds[a].hit = c

\* a CloseAck's callback is running
InCallback == \E a \in 1..Len(cmds) : cmds[a].op = "CloseAck" /\ cmds[a].st = "callback"

\* C19: a CloseAck that finds its entry has removed it when the callback runs and keeps
\* close_callbacks borrowed until the callback returns; a Close executed meanwhile (given
\* an id by the service) gets the borrow error and inserts nothing, a CloseAck executed
\* meanwhile is dropped.
C19_BorrowHeldDuringCallback ==
    [][/\ (Dispatched /\ New.op = "CloseAck" /\ New.hit # 0) =>
             /\ New.st = "callback"
             /\ close_callbacks'[New.arg] = NoCb
             /\ borrowed'
       /\ \A a \in 1..Len(cmds) :
             (cmds[a].op = "CloseAck" /\ cmds[a].st = "callback") =>
                 /\ borrowed
                 /\ close_callbacks[cmds[a].arg] = NoCb
                 /\ Len(invoked[cmds[a].hit]) = 1
                 /\ borrowed' <=> cmds'[a].st = "callback"
       /\ (Dispatched /\ InCallback /\ New.op = "Close" /\ New.arg # 0) =>
             /\ New.lock = "failed"
             /\ invoked' = [invoked EXCEPT ![Len(cmds')] = <<BorrowMutError>>]
             /\ close_callbacks' = close_callbacks
       /\ (Dispatched /\ InCallback /\ New.op = "CloseAck") =>
             /\ New.lock = "failed"
             /\ invoked' = invoked
             /\ close_callbacks' = close_callbacks]_vars

\* a Close executed while a CloseAck's callback is running got the borrow error
C19_Witness ==
    \E a \in 1..Len(cmds), c \in 1..Len(cmds) :
        /\ a < c
        /\ cmds[a].op = "CloseAck" /\ cmds[a].st = "callback" /\ borrowed
        /\ cmds[c].op = "Close" /\ cmds[c].arg # 0 /\ cmds[c].lock = "failed"
        /\ invoked[c] = <<BorrowMutError>>
        /\ \A k \in CmdIds : close_callbacks[k] = NoCb

\* the ids the service issued to the Close commands so far are pairwise distinct
DistinctIds ==
    \A c \in 1..Len(cmds), d \in 1..Len(cmds) :
        (c # d /\ cmds[c].op = "Close" /\ cmds[d].op = "Close" /\ cmds[c].arg # 0) =>
            cmds[c].arg # cmds[d].arg
Registered == {c \in 1..Len(cmds) : cmds[c].op = "Close" /\ cmds[c].hit # 0}
Resolved == {a \in 1..Len(cmds) : cmds[a].op = "CloseAck" /\ cmds[a].hit # 0}
PendingIds == {k \in CmdIds : close_callbacks[k] # NoCb}

\* C20: before any command the table is empty, and as long as the service has issued
\* pairwise distinct ids the number of entries is the number of Closes that registered one
\* minus the number of CloseAcks that removed one, which is the number of registered Close
\* callbacks not yet called.
C20_PendingCount ==
    /\ cmds = <<>> => PendingIds = {}
    /\ DistinctIds =>
          /\ Cardinality(PendingIds) = Cardinality(Registered) - Cardinality(Resolved)
          /\ Cardinality(PendingIds) = Cardinality({c \in Registered : invoked[c] = <<>>})

\* two Closes with different ids registered, one of them resolved
C20_Witness ==
    /\ DistinctIds
    /\ Cardinality(Registered) = 2
    /\ Cardinality(Resolved) = 1
    /\ Cardinality(PendingIds) = 1
====
